---- MODULE Spec2Model ----
(***************************************************************************)
(* The Kinesis-to-DynamoDB bridge of avandesa-fw/awssdk-demo: the shard    *)
(* reader (src/kinesis.rs), the event decoding (src/event.rs) and the      *)
(* orchestration with its unbounded mpsc channel (src/main.rs).            *)
(***************************************************************************)
EXTENDS Integers, Sequences, FiniteSets, TLC

(***************************************************************************)
(* Bounds of the model.                                                    *)
(***************************************************************************)
\* shards of the stream (one reader task can exist per shard)
NumShards == 2
\* GetRecords calls a shard answers before it must close or fail (program)
MaxFetches == 3
\* records in one GetRecords response (program)
MaxBatch == 3
\* records one shard delivers in total (program)
MaxRecords == 3
\* the same three limits for the fan-in composition of two readers
FanInFetches == 2
FanInBatch == 2
FanInRecords == 2
\* keys of one JSON object handed to the decoding on its own
MaxKeys == 4

\* the wait between two GetRecords calls, in milliseconds
PollDelayMillis == 200

Shards == 1..NumShards
\* the shards that have a reader in the fan-in composition
FanInReaders == {1, 2}

(***************************************************************************)
(* Record payloads (aws_sdk_kinesis::types::Blob) and their JSON content.  *)
(* A blob is either bytes that are no JSON text, or the JSON text of a     *)
(* value; a value is a record [t, v] of its JSON type and its text, and    *)
(* the text of an object is the sequence of its key/value pairs in the     *)
(* order they are written.                                                 *)
(***************************************************************************)
Str(s) == [t |-> "string", v |-> s]
Num(n) == [t |-> "number", v |-> n]
Null == [t |-> "null", v |-> "null"]
Array(text) == [t |-> "array", v |-> text]

\* strings that uuid::Uuid parses, and the Uuid each denotes
UuidOf == ("6f0c1d2e-0000-4000-8000-00000000000a" :> "uuid-a")
       @@ ("6F0C1D2E-0000-4000-8000-00000000000A" :> "uuid-a")
       @@ ("6f0c1d2e00004000800000000000000b" :> "uuid-b")

\* the numbers an i64 field would take
I64Numbers == {"0", "42"}

\* JSON numbers that serde_json hands over as a u64 (0 .. 2^64-1): a number is
\* kept as its text, and the only text of a u64 is its decimal numeral
U64Numbers == {"0", "42", "18446744073709551615"}

Bytes(b) == [form |-> "bytes", val |-> Str(b)]
Json(val) == [form |-> "json", val |-> val]
Pair(k, val) == [key |-> k, value |-> val]
Object(pairs) == [t |-> "object", v |-> pairs]

\* the named fields of the two structs, under rename_all = "PascalCase"
ProjectFields == {"ProjectId", "EntityType", "EntityId"}
AccountFields == {"AccountId"}

\* the Deserialize of a named field's type: Uuid, String, String and u64
Accepts(field, val) ==
    CASE field = "ProjectId" -> val.t = "string" /\ val.v \in DOMAIN UuidOf
      [] field = "AccountId" -> val.t = "number" /\ val.v \in U64Numbers
      [] OTHER -> val.t = "string"
Convert(field, val) == IF field = "ProjectId" THEN UuidOf[val.v] ELSE val.v

\* The derived visitor of a struct with a flattened field takes the pairs in
\* the order written: the pair of a named field is deserialized into the
\* field's slot, every other pair is collected for the flattened field.  The
\* four definitions below are what its loop has done at its end.

\* no error in the loop: every pair of a named field has a value the field's
\* type accepts, and no named field comes twice
VisitMap(pairs, fields) ==
    \A i \in DOMAIN pairs :
        pairs[i].key \in fields =>
            /\ Accepts(pairs[i].key, pairs[i].value)
            /\ \A j \in DOMAIN pairs : pairs[j].key = pairs[i].key => j = i

\* after the loop: a named field without value is an error (none of the
\* fields has a default)
DeserializeStruct(pairs, fields) ==
    /\ VisitMap(pairs, fields)
    /\ fields \subseteq {pairs[i].key : i \in DOMAIN pairs}

\* the value in the slot of a named field
Slot(pairs, field) ==
    Convert(field, pairs[CHOOSE i \in DOMAIN pairs : pairs[i].key = field].value)

\* a flattened field that takes every pair, those of the named fields too
WholeMap(pairs, fields) ==
    [k \in {pairs[i].key : i \in DOMAIN pairs} |->
        pairs[CHOOSE i \in DOMAIN pairs :
                  /\ pairs[i].key = k
                  /\ \A j \in DOMAIN pairs : pairs[j].key = k => j <= i].value]

\* the flattened JsonObject: the collected pairs inserted one by one, a later
\* pair replacing an earlier one of the same key
FlattenedMap(pairs, fields) ==
    [k \in {pairs[i].key : i \in DOMAIN pairs} \ fields |->
        pairs[CHOOSE i \in DOMAIN pairs :
                  /\ pairs[i].key = k
                  /\ \A j \in DOMAIN pairs : pairs[j].key = k => j <= i].value]

\* #[derive(Deserialize)] of ProjectEvent, from the buffered object
DeserializeProjectEvent(pairs) ==
    IF DeserializeStruct(pairs, ProjectFields)
    THEN [ok |-> TRUE,
          event |-> [variant |-> "Project",
                     project_id |-> Slot(pairs, "ProjectId"),
                     entity_type |-> Slot(pairs, "EntityType"),
                     entity_id |-> Slot(pairs, "EntityId"),
                     event_data |-> FlattenedMap(pairs, ProjectFields)]]
    ELSE [ok |-> FALSE]

\* an AccountId the payload does not have read as the default, 0
DeserializeAccountEventDefaultId(pairs) ==
    IF VisitMap(pairs, AccountFields)
    THEN [ok |-> TRUE,
          event |-> [variant |-> "Account",
                     account_id |-> IF \E i \in DOMAIN pairs : pairs[i].key = "AccountId"
                                    THEN Slot(pairs, "AccountId") ELSE "0",
                     event_data |-> FlattenedMap(pairs, AccountFields)]]
    ELSE [ok |-> FALSE]

\* #[derive(Deserialize)] of AccountEvent, from the buffered object
DeserializeAccountEvent(pairs) ==
    IF DeserializeStruct(pairs, AccountFields)
    THEN [ok |-> TRUE,
          event |-> [variant |-> "Account",
                     account_id |-> Slot(pairs, "AccountId"),
                     event_data |-> FlattenedMap(pairs, AccountFields)]]
    ELSE [ok |-> FALSE]

\* the variants declared, and so tried, in the other order
DeserializeEventAccountFirst(val) ==
    IF val.t # "object" THEN [ok |-> FALSE]
    ELSE IF DeserializeStruct(val.v, AccountFields) THEN DeserializeAccountEvent(val.v)
    ELSE DeserializeProjectEvent(val.v)

\* #[serde(untagged)] enum Event: the variants are tried in declaration order
DeserializeEvent(val) ==
    IF val.t # "object" THEN [ok |-> FALSE]
    ELSE IF DeserializeStruct(val.v, ProjectFields) THEN DeserializeProjectEvent(val.v)
    ELSE DeserializeAccountEvent(val.v)

\* impl TryFrom<&Blob> for Event: serde_json::from_slice, any error mapped
\* into EventDeserializeError
TryFrom(blob) ==
    IF blob.form # "json" THEN [ok |-> FALSE] ELSE DeserializeEvent(blob.val)

\* payloads the modelled stream delivers
SampleProject ==
    Json(Object(<<Pair("ProjectId", Str("6f0c1d2e-0000-4000-8000-00000000000a")),
                  Pair("EntityType", Str("task")),
                  Pair("EntityId", Str("6f0c1d2e00004000800000000000000b"))>>))
SampleAccount == Json(Object(<<Pair("AccountId", Num("42")), Pair("Foo", Str("bar"))>>))
SampleMalformed == Bytes("not json")
SampleEmptyObject == Json(Object(<< >>))

\* Record::data() is an Option: a record may carry no payload at all
NoData == [form |-> "none", val |-> Str("")]

\* the blobs handed to the decoding on its own: every object of at most
\* MaxKeys distinct keys, in every order of its keys, each key with values its
\* field accepts and values it rejects; and blobs that are no object
Keys == ProjectFields \cup AccountFields \cup {"Foo"}
ValuesOf(k) ==
    CASE k = "ProjectId" -> {Str("6f0c1d2e-0000-4000-8000-00000000000a"),
                             Str("6f0c1d2e00004000800000000000000b"),
                             Str("not-a-uuid"), Num("7")}
      [] k = "EntityType" -> {Str("task"), Num("7")}
      [] k = "EntityId" -> {Str("e-1"), Null}
      [] k = "AccountId" -> {Num("0"), Num("18446744073709551615"),
                             Num("18446744073709551616"), Num("-1"), Str("42")}
      [] OTHER -> {Str("bar"), Num("42")}
Pairs == UNION {{Pair(k, val) : val \in ValuesOf(k)} : k \in Keys}
Objects ==
    {o \in UNION {[1..n -> Pairs] : n \in 0..MaxKeys} :
        \A i, j \in DOMAIN o : i # j => o[i].key # o[j].key}
DecodeInputs ==
    {Json(Object(o)) : o \in Objects}
    \cup {Bytes("not json"), Bytes(""), Json(Str("ProjectId")), Json(Num("42")),
          Json(Null), Json(Array("[]"))}

(***************************************************************************)
(* State.                                                                  *)
(*   mainPc          position of main (main.rs); "none" in the fan-in      *)
(*                   composition, which has no main                        *)
(*   stream          the shard list of the stream description              *)
(*   task            per shard, the position of its reader task            *)
(*   shard_iterator  per reader, the local of run_until_shard_closed       *)
(*   resp, idx       per reader, the GetRecords response being handled and *)
(*                   the position of the for loop in its records           *)
(*   event_tx        the live Sender handles: main's and the readers'      *)
(*   event_rx        TRUE while the Receiver is alive                      *)
(*   channel         the events queued in the unbounded channel            *)
(*   collator        the position of the receive_events task               *)
(*   received        the events receive_events has taken, in order         *)
(*   service         per shard, what the stream service has handed out     *)
(*   returned        per shard, every record GetRecords returned, in order *)
(*   trace           per reader, the calls it made, in order               *)
(*   blob, decoded   the argument of one Event::try_from call and what it  *)
(*                   returned (the decoding on its own, as event.rs's      *)
(*                   tests call it)                                        *)
(***************************************************************************)
VARIABLES mainPc, stream, task, shard_iterator, resp, idx, event_tx, event_rx,
          channel, collator, received, service, returned, trace, blob, decoded

vars == <<mainPc, stream, task, shard_iterator, resp, idx, event_tx, event_rx,
          channel, collator, received, service, returned, trace, blob, decoded>>

decodeVars == <<blob, decoded>>
mainVars == <<mainPc, stream>>
readerVars == <<task, shard_iterator, resp, idx, service, returned, trace>>

FanIn == mainPc = "none"
FetchLimit == IF FanIn THEN FanInFetches ELSE MaxFetches
BatchLimit == IF FanIn THEN FanInBatch ELSE MaxBatch
RecordLimit == IF FanIn THEN FanInRecords ELSE MaxRecords
Payloads == IF FanIn THEN {SampleProject}
            ELSE {SampleProject, SampleAccount, SampleMalformed, NoData}

Min(a, b) == IF a < b THEN a ELSE b
Batches(n) == UNION {[1..k -> Payloads] : k \in 0..n}

\* one entry of a reader's trace: the call, its argument (a cursor or a
\* record's position in `returned`), its result and the cursor it returned
Call(op, arg, res, out) == [op |-> op, arg |-> arg, res |-> res, out |-> out]
Log(r, call) == trace' = [trace EXCEPT ![r] = Append(@, call)]

NoResponse == [records |-> [present |-> TRUE, list |-> << >>], next |-> 0]

\* a Sender is dropped with the task that owns it; dropping one reader's
\* Sender by dropping them all
DropEverySender(r) == event_tx' = [event_tx EXCEPT !.readers = {}]

\* the task of reader r ends: `self`, and with it its Sender, is dropped
DropSender(r) == event_tx' = [event_tx EXCEPT !.readers = @ \ {r}]

(***************************************************************************)
(* KinesisShardReader::run_until_shard_closed                              *)
(***************************************************************************)
\* a failed GetShardIterator call that is tried again
IteratorFailedRetry(r, res) ==
    /\ Log(r, Call("get_shard_iterator", 0, res, 0))
    /\ UNCHANGED <<task, event_tx>>

\* .wrap_err("Failed to obtain shard iterator")?
IteratorFailed(r, res) ==
    /\ task' = [task EXCEPT ![r] = "Err"]
    /\ Log(r, Call("get_shard_iterator", 0, res, 0))
    /\ DropSender(r)

\* the initial GetShardIterator call; "none" is a response without iterator
GetShardIterator(r) ==
    /\ task[r] = "get_shard_iterator"
    /\ \E res \in {"ok", "err", "none"} :
        IF res = "ok"
        THEN /\ shard_iterator' = [shard_iterator EXCEPT ![r] = service[r].tokens + 1]
             /\ service' = [service EXCEPT ![r].tokens = @ + 1]
             /\ task' = [task EXCEPT ![r] = "get_records"]
             /\ Log(r, Call("get_shard_iterator", 0, res, service[r].tokens + 1))
             /\ UNCHANGED event_tx
        ELSE /\ IteratorFailed(r, res)
             /\ UNCHANGED <<shard_iterator, service>>
    /\ UNCHANGED <<decodeVars, mainVars, resp, idx, event_rx, channel, collator, received, returned>>

\* the responses the service may give to the next GetRecords call of shard r:
\* a records list (or none), and a fresh next iterator (or none: 0)
Responses(r) ==
    LET room == Min(BatchLimit, RecordLimit - Len(returned[r]))
        nexts == {0} \cup (IF service[r].fetches + 1 < FetchLimit
                           THEN {service[r].tokens + 1} ELSE {})
    IN  {[records |-> [present |-> TRUE, list |-> b], next |-> n] :
            b \in Batches(room), n \in nexts}
        \cup {[records |-> [present |-> FALSE, list |-> << >>], next |-> n] : n \in nexts}

Numbered(r, list) ==
    [i \in 1..Len(list) |-> [sequence_number |-> Len(returned[r]) + i, data |-> list[i]]]

\* a failed GetRecords call that is tried again with the same iterator
FetchFailedRetry(r) ==
    /\ Log(r, Call("get_records", shard_iterator[r], "err", 0))
    /\ UNCHANGED <<task, event_tx>>

\* self.client.get_records(&shard_iterator).await?
FetchFailed(r) ==
    /\ task' = [task EXCEPT ![r] = "Err"]
    /\ Log(r, Call("get_records", shard_iterator[r], "err", 0))
    /\ DropSender(r)

\* loop head: GetRecords with the current iterator, then the records() unwrap
GetRecords(r) ==
    /\ task[r] = "get_records"
    /\ service[r].fetches < FetchLimit
    /\ \/ /\ FetchFailed(r)
          /\ service' = [service EXCEPT ![r].fetches = @ + 1]
          /\ UNCHANGED <<resp, idx, returned>>
       \/ \E rsp \in Responses(r) :
          /\ service' = [service EXCEPT ![r].fetches = @ + 1,
                                        ![r].tokens = IF rsp.next = 0 THEN @ ELSE rsp.next]
          /\ Log(r, Call("get_records", shard_iterator[r], "ok", rsp.next))
          /\ returned' = [returned EXCEPT ![r] = @ \o Numbered(r, rsp.records.list)]
          /\ resp' = [resp EXCEPT ![r] =
                        [rsp EXCEPT !.records.list = Numbered(r, rsp.records.list)]]
          /\ idx' = [idx EXCEPT ![r] = 1]
          /\ IF rsp.records.present
             THEN /\ task' = [task EXCEPT ![r] = "handle_record"]
                  /\ UNCHANGED event_tx
             ELSE /\ task' = [task EXCEPT ![r] = "panicked"]
                  /\ DropSender(r)
    /\ UNCHANGED <<decodeVars, mainVars, shard_iterator, event_rx, channel, collator, received>>

\* the records of the response taken last to first
CurrentRecordReversed(r) ==
    resp[r].records.list[Len(resp[r].records.list) + 1 - idx[r]]

\* for record in resp.records().unwrap(): the record of this iteration
CurrentRecord(r) == resp[r].records.list[idx[r]]

\* record.data().unwrap() on a record without payload
RecordWithoutData(r, n) ==
    /\ task' = [task EXCEPT ![r] = "panicked"]
    /\ Log(r, Call("data", n, "none", 0))
    /\ DropSender(r)
    /\ UNCHANGED <<idx, channel>>

\* a send whose error is dropped instead of propagated
SendEventIgnoringClosed(r, n, event) ==
    /\ channel' = IF event_rx THEN Append(channel, [src |-> r, seq |-> n, event |-> event])
                  ELSE channel
    /\ Log(r, Call("send", n, IF event_rx THEN "ok" ELSE "closed", 0))
    /\ idx' = [idx EXCEPT ![r] = @ + 1]
    /\ UNCHANGED <<task, event_tx>>

\* self.event_tx.send(event).wrap_err("Failed to send event over channel")?
\* UnboundedSender::send fails exactly when the Receiver is gone
SendEvent(r, n, event) ==
    IF event_rx
    THEN /\ channel' = Append(channel, [src |-> r, seq |-> n, event |-> event])
         /\ Log(r, Call("send", n, "ok", 0))
         /\ idx' = [idx EXCEPT ![r] = @ + 1]
         /\ UNCHANGED <<task, event_tx>>
    ELSE /\ task' = [task EXCEPT ![r] = "Err"]
         /\ Log(r, Call("send", n, "closed", 0))
         /\ DropSender(r)
         /\ UNCHANGED <<idx, channel>>

\* the record is skipped without a word
ReportMalformedSilently(r, n) ==
    /\ idx' = [idx EXCEPT ![r] = @ + 1]
    /\ UNCHANGED <<task, event_tx, channel, trace>>

\* a decode error passed up to the caller
ReportMalformedAndFail(r, n) ==
    /\ task' = [task EXCEPT ![r] = "Err"]
    /\ Log(r, Call("error", n, "logged", 0))
    /\ DropSender(r)
    /\ UNCHANGED <<idx, channel>>

\* a decode error that is fatal once the Receiver is gone
ReportMalformedUnlessClosed(r, n) ==
    /\ Log(r, Call("error", n, "logged", 0))
    /\ IF event_rx
       THEN /\ idx' = [idx EXCEPT ![r] = @ + 1]
            /\ UNCHANGED <<task, event_tx>>
       ELSE /\ task' = [task EXCEPT ![r] = "Err"]
            /\ DropSender(r)
            /\ UNCHANGED idx
    /\ UNCHANGED channel

\* Err(err): "Don't pass the error up ... report it and move on"
ReportMalformed(r, n) ==
    /\ Log(r, Call("error", n, "logged", 0))
    /\ idx' = [idx EXCEPT ![r] = @ + 1]
    /\ UNCHANGED <<task, event_tx, channel>>

\* one iteration of the for loop: handle_record on the next record
HandleRecord(r) ==
    /\ task[r] = "handle_record"
    /\ idx[r] <= Len(resp[r].records.list)
    /\ LET record == CurrentRecord(r)
           n == record.sequence_number
       IN  IF record.data = NoData THEN RecordWithoutData(r, n)
           ELSE IF TryFrom(record.data).ok
                THEN SendEvent(r, n, TryFrom(record.data).event)
                ELSE ReportMalformed(r, n)
    /\ UNCHANGED <<decodeVars, mainVars, shard_iterator, resp, event_rx, collator, received,
                   service, returned>>

\* the iterator of the response is dropped and the current one used again
StaleIterator(r) == shard_iterator[r]

\* shard_iterator = next_iterator.to_string()
NextIterator(r) == resp[r].next

\* a response without next iterator that does not end the loop
ShardEndedKeepPolling(r) ==
    /\ task' = [task EXCEPT ![r] = "sleep"]
    /\ UNCHANGED event_tx

\* println!("Shard ended"); break; and Ok(()) after the loop
ShardEnded(r) ==
    /\ task' = [task EXCEPT ![r] = "Ok"]
    /\ DropSender(r)

\* the loop goes on while the response had records
HadRecords(r) == resp[r].records.list # << >>

\* if let Some(next_iterator) = resp.next_shard_iterator()
HasNextIterator(r) == resp[r].next # 0

\* after the for loop: take the next iterator, or break and return Ok(())
UpdateIterator(r) ==
    /\ task[r] = "handle_record"
    /\ idx[r] > Len(resp[r].records.list)
    /\ IF HasNextIterator(r)
       THEN /\ shard_iterator' = [shard_iterator EXCEPT ![r] = NextIterator(r)]
            /\ task' = [task EXCEPT ![r] = "sleep"]
            /\ UNCHANGED event_tx
       ELSE /\ ShardEnded(r)
            /\ UNCHANGED shard_iterator
    /\ UNCHANGED <<decodeVars, mainVars, resp, idx, event_rx, channel, collator, received,
                   service, returned, trace>>

\* back to the loop head without the wait
NoSleep(r) ==
    /\ task[r] = "sleep"
    /\ task' = [task EXCEPT ![r] = "get_records"]
    /\ UNCHANGED <<decodeVars, mainVars, shard_iterator, resp, idx, event_tx, event_rx, channel,
                   collator, received, service, returned, trace>>

\* tokio::time::sleep(Duration::from_millis(200)), then back to the loop head
Sleep(r) ==
    /\ task[r] = "sleep"
    /\ task' = [task EXCEPT ![r] = "get_records"]
    /\ Log(r, Call("sleep", PollDelayMillis, "ok", 0))
    /\ UNCHANGED <<decodeVars, mainVars, shard_iterator, resp, idx, event_tx, event_rx, channel,
                   collator, received, service, returned>>

Reader(r) ==
    \/ GetShardIterator(r)
    \/ GetRecords(r)
    \/ HandleRecord(r)
    \/ UpdateIterator(r)
    \/ Sleep(r)

(***************************************************************************)
(* receive_events: recv() yields the oldest queued event, and None once    *)
(* the queue is empty and every Sender has been dropped.                   *)
(***************************************************************************)
NoSender == ~event_tx.main /\ event_tx.readers = {}

\* recv() that yields the newest queued event
ReceiveNewestFirst ==
    /\ collator = "recv"
    /\ channel # << >> \/ NoSender
    /\ IF channel # << >>
       THEN /\ received' = Append(received, channel[Len(channel)])
            /\ channel' = SubSeq(channel, 1, Len(channel) - 1)
            /\ UNCHANGED <<collator, event_rx>>
       ELSE /\ collator' = "done"
            /\ event_rx' = FALSE
            /\ UNCHANGED <<received, channel>>
    /\ UNCHANGED <<decodeVars, mainVars, readerVars, event_tx>>

\* while let Some(event) = event_rx.recv().await { dbg!(&event); }
ReceiveEvents ==
    /\ collator = "recv"
    /\ channel # << >> \/ NoSender
    /\ IF channel # << >>
       THEN /\ received' = Append(received, Head(channel))
            /\ channel' = Tail(channel)
            /\ UNCHANGED <<collator, event_rx>>
       ELSE /\ collator' = "done"
            /\ event_rx' = FALSE
            /\ UNCHANGED <<received, channel>>
    /\ UNCHANGED <<decodeVars, mainVars, readerVars, event_tx>>

\* the collator task is cancelled: its Receiver is dropped, and with it the
\* events still queued
CancelCollator ==
    /\ collator = "recv"
    /\ collator' = "cancelled"
    /\ event_rx' = FALSE
    /\ channel' = << >>
    /\ UNCHANGED <<decodeVars, mainVars, readerVars, event_tx, received>>

\* the Receiver is dropped under the readers' feet: receive_events ends and
\* event_rx goes out of scope. The moment is noted in every reader's trace.
DropReceiver ==
    /\ collator = "recv"
    /\ collator' = "cancelled"
    /\ event_rx' = FALSE
    /\ channel' = << >>
    /\ trace' = [r \in Shards |-> Append(trace[r], Call("drop_receiver", 0, "ok", 0))]
    /\ UNCHANGED <<decodeVars, mainVars, task, shard_iterator, resp, idx, event_tx,
                   received, service, returned>>

(***************************************************************************)
(* main                                                                    *)
(***************************************************************************)
\* the shard lists DescribeStream may report: the shards in any order
ShardLists == {l \in UNION {[1..k -> Shards] : k \in 0..NumShards} :
                 \A i, j \in 1..Len(l) : i # j => l[i] # l[j]}

\* let first_shard_id = stream.shards()...[0]
first_shard_id == stream[1]

\* describe_stream, then the first shard's id; "err" is a failed call or a
\* response without description, "no_shards" a description without shard list
DescribeStream ==
    /\ mainPc = "describe_stream"
    /\ \E d \in {[res |-> "err", shards |-> << >>], [res |-> "no_shards", shards |-> << >>]}
                \cup {[res |-> "ok", shards |-> l] : l \in ShardLists} :
        /\ stream' = d.shards
        /\ mainPc' = IF d.res = "err" THEN "exit_err"
                     ELSE IF d.res = "no_shards" \/ d.shards = << >> THEN "panicked"
                     ELSE "spawn"
    /\ UNCHANGED <<decodeVars, readerVars, event_tx, event_rx, channel, collator, received>>

\* the channel, one reader (for the first shard) with a clone of the Sender,
\* and the two spawned tasks
SpawnTasks ==
    /\ mainPc = "spawn"
    /\ event_tx' = [main |-> TRUE, readers |-> {first_shard_id}]
    /\ event_rx' = TRUE
    /\ task' = [task EXCEPT ![first_shard_id] = "get_shard_iterator"]
    /\ collator' = "recv"
    /\ mainPc' = "join_reader"
    /\ UNCHANGED <<decodeVars, stream, shard_iterator, resp, idx, channel, received, service,
                   returned, trace>>

\* main returns (or panics): the runtime is dropped, which cancels the tasks
\* still running and drops every handle main holds
Exit(pc) ==
    /\ mainPc' = pc
    /\ event_tx' = [event_tx EXCEPT !.main = FALSE]
    /\ collator' = IF collator = "recv" THEN "cancelled" ELSE collator
    /\ event_rx' = FALSE
    /\ channel' = << >>

\* shard_reader_handle.await.unwrap().wrap_err(..)?, then
\* shard_collator_thread.await.unwrap() and Ok(())
Join ==
    /\ \/ mainPc = "join_reader" /\ task[first_shard_id] \in {"Ok", "Err", "panicked"}
       \/ mainPc = "join_collator" /\ collator = "done"
    /\ IF mainPc = "join_reader"
       THEN IF task[first_shard_id] = "Ok"
            THEN /\ mainPc' = "join_collator"
                 /\ UNCHANGED <<event_tx, collator, event_rx, channel>>
            ELSE IF task[first_shard_id] = "Err"
            THEN Exit("exit_err")
            ELSE Exit("panicked")
       ELSE Exit("exit_ok")
    /\ UNCHANGED <<decodeVars, stream, readerVars, received>>

(***************************************************************************)
(* Specifications.                                                         *)
(***************************************************************************)
InitReaders ==
    /\ shard_iterator = [r \in Shards |-> 0]
    /\ resp = [r \in Shards |-> NoResponse]
    /\ idx = [r \in Shards |-> 1]
    /\ service = [r \in Shards |-> [tokens |-> 0, fetches |-> 0]]
    /\ returned = [r \in Shards |-> << >>]
    /\ trace = [r \in Shards |-> << >>]
    /\ channel = << >>
    /\ received = << >>

\* no Event::try_from call on its own
NoDecode ==
    /\ blob = NoData
    /\ decoded = [at |-> "none"]

\* the program: main, before describe_stream
Init ==
    /\ mainPc = "describe_stream"
    /\ stream = << >>
    /\ task = [r \in Shards |-> "unspawned"]
    /\ event_tx = [main |-> FALSE, readers |-> {}]
    /\ event_rx = FALSE
    /\ collator = "unspawned"
    /\ InitReaders
    /\ NoDecode

Next ==
    \/ DescribeStream
    \/ SpawnTasks
    \/ Join
    \/ \E r \in Shards : Reader(r)
    \/ ReceiveEvents

Spec == Init /\ [][Next]_vars

\* the program from the point where main has spawned the reader of a
\* one-shard stream and receive_events, and waits for the reader
InitSpawned ==
    /\ mainPc = "join_reader"
    /\ stream = <<1>>
    /\ task = [r \in Shards |-> IF r = 1 THEN "get_shard_iterator" ELSE "unspawned"]
    /\ event_tx = [main |-> TRUE, readers |-> {1}]
    /\ event_rx = TRUE
    /\ collator = "recv"
    /\ InitReaders
    /\ NoDecode

NextSpawned ==
    \/ Join
    \/ \E r \in Shards : Reader(r)
    \/ ReceiveEvents

SpecSpawned == InitSpawned /\ [][NextSpawned]_vars

(***************************************************************************)
(* One KinesisShardReader::run and receive_events on one channel, without   *)
(* main: the Receiver may be dropped at any moment of the reader's run.     *)
(***************************************************************************)
InitDetached ==
    /\ mainPc = "detached"
    /\ stream = <<1>>
    /\ task = [r \in Shards |-> IF r = 1 THEN "get_shard_iterator" ELSE "unspawned"]
    /\ event_tx = [main |-> FALSE, readers |-> {1}]
    /\ event_rx = TRUE
    /\ collator = "recv"
    /\ InitReaders
    /\ NoDecode

NextDetached ==
    \/ \E r \in Shards : Reader(r)
    \/ ReceiveEvents
    \/ DropReceiver

SpecDetached == InitDetached /\ [][NextDetached]_vars

\* the tokio runtime polls every task that can make progress
FairSpec ==
    /\ Spec
    /\ WF_vars(DescribeStream)
    /\ WF_vars(SpawnTasks)
    /\ WF_vars(Join)
    /\ WF_vars(ReceiveEvents)
    /\ \A r \in Shards : WF_vars(Reader(r))

\* the fan-in composition: one KinesisShardReader per shard, each with its own
\* clone of the Sender, and receive_events on the Receiver
InitFanIn ==
    /\ mainPc = "none"
    /\ stream = [i \in 1..NumShards |-> i]
    /\ task = [r \in Shards |-> IF r \in FanInReaders THEN "get_shard_iterator"
                                ELSE "unspawned"]
    /\ event_tx = [main |-> FALSE, readers |-> FanInReaders]
    /\ event_rx = TRUE
    /\ collator = "recv"
    /\ InitReaders
    /\ NoDecode

NextFanIn ==
    \/ \E r \in Shards : Reader(r)
    \/ ReceiveEvents
    \/ CancelCollator

SpecFanIn == InitFanIn /\ [][NextFanIn]_vars

\* the decoding on its own: one Event::try_from call on one blob, no task
\* running
InitDecode ==
    /\ mainPc = "test"
    /\ stream = << >>
    /\ task = [r \in Shards |-> "unspawned"]
    /\ event_tx = [main |-> FALSE, readers |-> {}]
    /\ event_rx = FALSE
    /\ collator = "unspawned"
    /\ InitReaders
    /\ blob \in DecodeInputs
    /\ decoded = [at |-> "pending"]

\* let result = Event::try_from(&blob)
Decode ==
    /\ decoded = [at |-> "pending"]
    /\ decoded' = [at |-> "done", result |-> TryFrom(blob)]
    /\ UNCHANGED <<blob, mainVars, readerVars, event_tx, event_rx, channel, collator,
                   received>>

NextDecode == Decode

SpecDecode == InitDecode /\ [][NextDecode]_vars

(***************************************************************************)
(* Properties.                                                             *)
(***************************************************************************)
Last(s) == s[Len(s)]
Calls(r, op) == SelectSeq(trace[r], LAMBDA c : c.op = op)
\* the calls of reader r that published an event
Sent(r) == SelectSeq(trace[r], LAMBDA c : c.op = "send" /\ c.res = "ok")
\* the calls of reader r that handled a record, whatever the outcome
Handled(r) == SelectSeq(trace[r], LAMBDA c : c.op \in {"send", "error", "data"})
Fetches(r) == Calls(r, "get_records")
Running == {"get_shard_iterator", "get_records", "handle_record", "sleep"}
\* the record has a payload, and it is an object one of the two structs
\* deserializes from
Decodes(rec) ==
    /\ rec.data.form = "json"
    /\ rec.data.val.t = "object"
    /\ \/ DeserializeStruct(rec.data.val.v, ProjectFields)
       \/ DeserializeStruct(rec.data.val.v, AccountFields)
Malformed(rec) == rec.data # NoData /\ ~Decodes(rec)
\* the events of reader r in a sequence of channel messages
From(r, msgs) == SelectSeq(msgs, LAMBDA m : m.src = r)
IsPrefix(s, t) == Len(s) <= Len(t) /\ SubSeq(t, 1, Len(s)) = s

\* C1: the events a reader publishes are in the order in which GetRecords
\* returned their records, within a batch and across batches: the published
\* records are records that were returned and that decode, each published
\* later than every record returned before it, and the channel carries the
\* reader's events in that same order.
C1_PublishedInFetchOrder ==
    \A r \in Shards :
        LET s == Sent(r) IN
        /\ \A i \in 1..Len(s) :
            /\ s[i].arg \in 1..Len(returned[r])
            /\ Decodes(returned[r][s[i].arg])
        /\ \A i, j \in 1..Len(s) : i < j => s[i].arg < s[j].arg
        /\ LET q == From(r, received \o channel) IN
           \A i, j \in 1..Len(q) : i < j => q[i].seq < q[j].seq

\* two events of one batch and a third of a later batch have been published
C1_Witness ==
    \E r \in Shards : \E i, j, k, l \in 1..Len(trace[r]) :
        /\ i < j /\ j < k /\ k < l
        /\ trace[r][i].op = "send" /\ trace[r][i].res = "ok"
        /\ trace[r][j].op = "send" /\ trace[r][j].res = "ok"
        /\ trace[r][k].op = "get_records"
        /\ trace[r][l].op = "send" /\ trace[r][l].res = "ok"

\* C2: a record that fails to decode neither ends the reader nor makes it
\* skip a record: the records are handled one by one in the order returned,
\* none left out; after the error is logged the reader is at the record after
\* the malformed one, in the for loop or past its end (never in error); and
\* a reader that has left the for loop has handled every record returned so
\* far.
C2_MalformedRecordIsSkippedOnly ==
    \A r \in Shards :
        LET h == Handled(r) IN
        /\ \A i \in 1..Len(h) : h[i].arg = i
        /\ (trace[r] # << >> /\ Last(trace[r]).op = "error") =>
              /\ task[r] \in {"handle_record", "sleep", "Ok"}
              /\ Len(h) = Len(returned[r]) - Len(resp[r].records.list) + idx[r] - 1
              /\ Last(trace[r]).arg = Len(h)
        /\ (task[r] \in {"sleep", "get_records", "Ok"}) => Len(h) = Len(returned[r])
        /\ (task[r] = "Err") => Last(trace[r]).op # "error"

\* scenario B, and more: valid, malformed, valid in one batch gave two events
\* and one logged error, and the reader went on to its next fetch
C2_Witness ==
    \E r \in Shards :
        /\ Len(returned[r]) = 3
        /\ Decodes(returned[r][1]) /\ Malformed(returned[r][2]) /\ Decodes(returned[r][3])
        /\ Len(Fetches(r)) = 2
        /\ Fetches(r)[1].out # 0
        /\ Len(Sent(r)) = 2
        /\ Len(Calls(r, "error")) = 1
        /\ Last(trace[r]).op = "get_records" /\ Last(trace[r]).res = "ok"

\* C3: a response without next iterator ends the reader, with success and
\* only after its records: a reader that returned Ok(()) did so after a
\* successful GetRecords without next iterator and has handled every record
\* returned; no GetRecords call follows such a response; and after such a
\* response the reader neither sleeps nor polls, and it is in error only by a
\* failed send; once every record of that response has been handled (published
\* or reported) the reader is at its return, or has returned Ok(()).
C3_ClosedShardEndsReader ==
    \A r \in Shards :
        LET f == Fetches(r) IN
        /\ task[r] = "Ok" =>
              /\ f # << >>
              /\ Last(f).res = "ok" /\ Last(f).out = 0
              /\ Len(Handled(r)) = Len(returned[r])
              /\ Len(Sent(r)) = Cardinality({n \in 1..Len(returned[r]) :
                                                Decodes(returned[r][n])})
        /\ \A i \in 1..Len(f) - 1 : f[i].res = "ok" /\ f[i].out # 0
        /\ (f # << >> /\ Last(f).res = "ok" /\ Last(f).out = 0) =>
              /\ task[r] \in {"handle_record", "Ok", "Err", "panicked"}
              /\ task[r] = "Err" => (Last(trace[r]).op = "send"
                                       /\ Last(trace[r]).res = "closed")
              /\ (/\ resp[r].records.present
                  /\ Len(Handled(r)) = Len(returned[r])
                  /\ \A i \in 1..Len(Handled(r)) :
                        Handled(r)[i].res \in {"ok", "logged"})
                    => \/ task[r] = "Ok"
                       \/ task[r] = "handle_record" /\ ENABLED UpdateIterator(r)

\* scenario A: three valid records with a next iterator, then no record and no
\* next iterator: three events, two GetRecords calls, Ok(())
C3_Witness ==
    \E r \in Shards :
        /\ task[r] = "Ok"
        /\ Len(Fetches(r)) = 2
        /\ Len(returned[r]) = 3
        /\ Len(Sent(r)) = 3
        /\ Len(trace[r]) = 7
        /\ trace[r][7].op = "get_records"

\* C4: a failed GetShardIterator call (a service error, or no iterator in the
\* response) ends the reader in error at once: it is the reader's only call,
\* so there is no second attempt, no GetRecords call and no event.
C4_IteratorFailureIsFatal ==
    \A r \in Shards :
        /\ Len(Calls(r, "get_shard_iterator")) <= 1
        /\ \A i \in 1..Len(trace[r]) :
              (trace[r][i].op = "get_shard_iterator") => i = 1
        /\ (trace[r] # << >> /\ trace[r][1].res \in {"err", "none"}) =>
              /\ task[r] = "Err"
              /\ Len(trace[r]) = 1
              /\ returned[r] = << >>
              /\ From(r, received \o channel) = << >>
        /\ (task[r] \in Running \ {"get_shard_iterator"}) => trace[r][1].res = "ok"

\* the call failed with a service error and the reader is gone
C4_Witness ==
    \E r \in Shards :
        /\ trace[r] = <<Call("get_shard_iterator", 0, "err", 0)>>
        /\ task[r] = "Err"

\* C5: a failed GetRecords call, in whatever iteration, ends the reader in
\* error: it is the last call the reader makes (no further GetRecords, no
\* sleep, no event afterwards).
C5_FetchFailureIsFatal ==
    \A r \in Shards : \A i \in 1..Len(trace[r]) :
        (trace[r][i].op = "get_records" /\ trace[r][i].res = "err") =>
            /\ i = Len(trace[r])
            /\ task[r] = "Err"

\* the GetRecords call of a later iteration failed, after events were sent
C5_Witness ==
    \E r \in Shards :
        /\ Len(Fetches(r)) >= 2
        /\ Len(Sent(r)) >= 1
        /\ Last(trace[r]).op = "get_records" /\ Last(trace[r]).res = "err"
        /\ task[r] = "Err"

\* C6: once the Receiver is gone, a send fails and that is fatal to the
\* reader: the failed send is the reader's last call (no further record of
\* the batch is handled, no GetRecords follows) and the reader ends in error;
\* nothing enters the channel after the Receiver is gone.
C6_SendFailureIsFatal ==
    /\ \A r \in Shards : \A i \in 1..Len(trace[r]) :
        (trace[r][i].op = "send" /\ trace[r][i].res = "closed") =>
            /\ i = Len(trace[r])
            /\ task[r] = "Err"
            /\ ~event_rx
    /\ ~event_rx => channel = << >>

\* a send failed while records of the batch were still to be handled
C6_Witness ==
    \E r \in Shards :
        /\ task[r] = "Err"
        /\ Last(trace[r]).op = "send" /\ Last(trace[r]).res = "closed"
        /\ idx[r] < Len(resp[r].records.list)
        /\ Len(Handled(r)) < Len(returned[r])

\* C7: the iterator of every GetRecords call is used once: the first call
\* uses the iterator GetShardIterator returned, every later call the next
\* iterator of the response before it, and no two calls use the same one.
C7_IteratorUsedOnce ==
    \A r \in Shards :
        LET f == Fetches(r) IN
        /\ f # << >> =>
              /\ trace[r][1].op = "get_shard_iterator" /\ trace[r][1].res = "ok"
              /\ f[1].arg = trace[r][1].out
        /\ \A i \in 2..Len(f) : f[i - 1].res = "ok" /\ f[i].arg = f[i - 1].out
        /\ \A i, j \in 1..Len(f) : i # j => f[i].arg # f[j].arg
        /\ \A i \in 1..Len(f) : f[i].arg # 0

\* a reader made three GetRecords calls
C7_Witness == \E r \in Shards : Len(Fetches(r)) = 3 /\ Last(Fetches(r)).res = "ok"

\* C8: with several readers on one channel, the collator receives each
\* reader's events in the order the reader sent them, whatever the
\* interleaving: what it has received from a reader is a prefix of what the
\* reader sent, the rest is still queued in that order while the Receiver
\* lives, each event is the decoded record, and when recv() has yielded None
\* every event of every reader has been received.
C8_PerReaderOrder ==
    /\ \A i \in 1..Len(received) :
          received[i].event = TryFrom(returned[received[i].src][received[i].seq].data).event
    /\ \A r \in Shards :
        LET sent == [i \in 1..Len(Sent(r)) |-> Sent(r)[i].arg]
            got == [i \in 1..Len(From(r, received)) |-> From(r, received)[i].seq]
            queued == [i \in 1..Len(From(r, channel)) |-> From(r, channel)[i].seq]
        IN  /\ IsPrefix(got, sent)
            /\ event_rx => got \o queued = sent
            /\ collator = "done" => got = sent

\* scenario D: two readers sent two events each, interleaved, and the
\* collator has received all four and seen the channel closed
C8_Witness ==
    /\ collator = "done"
    /\ Len(received) = 4
    /\ \A r \in FanInReaders : Len(Sent(r)) = 2
    /\ received[1].src # received[2].src
    /\ received[2].src = received[3].src

\* C9: when the reader has returned Ok(()), the collator eventually sees the
\* channel closed and main returns.
C9_CollatorExits ==
    (mainPc = "join_collator") ~> (collator = "done" /\ mainPc = "exit_ok")

\* the call of reader r that ended it in error is a failed call of its own
OwnFailure(r) ==
    /\ trace[r] # << >>
    /\ \/ Last(trace[r]).op = "get_shard_iterator" /\ Last(trace[r]).res \in {"err", "none"}
       \/ Last(trace[r]).op = "get_records" /\ Last(trace[r]).res = "err"
       \/ Last(trace[r]).op = "send" /\ Last(trace[r]).res = "closed"

Spawned == {r \in Shards : task[r] # "unspawned"}

\* C11: once main has spawned its tasks, every shard of the stream
\* description has a reader task: no discovered shard is left without one.
C11_ReaderForEveryShard ==
    mainPc \in {"join_reader", "join_collator"} =>
        \A i \in DOMAIN stream : stream[i] \in Spawned

\* C12: the reader waits between any two successive GetRecords calls and
\* nowhere else: every GetRecords call but the first comes right after a wait
\* of PollDelayMillis, the first comes right after GetShardIterator, every
\* wait is followed by a GetRecords call or still pending one, and a reader
\* that ended after n GetRecords calls has waited n - 1 times (so none
\* precedes its end).
C12_WaitBetweenFetches ==
    \A r \in Shards :
        LET t == trace[r] IN
        /\ \A i \in 1..Len(t) :
              /\ (t[i].op = "get_records") =>
                    /\ i > 1
                    /\ IF \E j \in 1..(i - 1) : t[j].op = "get_records"
                       THEN t[i - 1] = Call("sleep", PollDelayMillis, "ok", 0)
                       ELSE t[i - 1].op = "get_shard_iterator"
              /\ (t[i].op = "sleep") =>
                    IF i = Len(t) THEN task[r] = "get_records"
                    ELSE t[i + 1].op = "get_records"
        /\ (task[r] \in {"Ok", "Err", "panicked"} /\ Fetches(r) # << >>) =>
              Len(Calls(r, "sleep")) = Len(Fetches(r)) - 1
        /\ (task[r] \in {"handle_record", "sleep"}) =>
              Len(Calls(r, "sleep")) = Len(Fetches(r)) - 1

\* a reader ended with success after three GetRecords calls and two waits
C12_Witness ==
    \E r \in Shards :
        /\ task[r] = "Ok"
        /\ Len(Fetches(r)) = 3
        /\ Len(Calls(r, "sleep")) = 2

\* C13: a decode error never reaches the channel: every record handled that
\* decodes was sent as one event (the decoded one), every record handled that
\* does not decode gave one logged error and no event, so that the events
\* sent are as many as the handled records that decode, and the channel and
\* the collator hold these events only (all of them while the Receiver
\* lives).
C13_DecodeErrorsStayOut ==
    \A r \in Shards :
        LET h == Handled(r) IN
        /\ \A i \in 1..Len(h) :
              /\ h[i].arg = i
              /\ Decodes(returned[r][i]) <=> (h[i].op = "send" /\ h[i].res = "ok")
              /\ Malformed(returned[r][i]) <=> (h[i].op = "error")
        /\ Len(Sent(r)) = Cardinality({i \in 1..Len(h) : Decodes(returned[r][i])})
        /\ Len(Calls(r, "error")) = Cardinality({i \in 1..Len(h) : Malformed(returned[r][i])})
        /\ LET q == From(r, received \o channel) IN
           /\ Len(q) <= Len(Sent(r))
           /\ event_rx => Len(q) = Len(Sent(r))
           /\ \A i \in 1..Len(q) :
                 /\ q[i].seq = Sent(r)[i].arg
                 /\ q[i].event = TryFrom(returned[r][q[i].seq].data).event

\* a batch of a malformed record between two valid ones of different kinds
\* gave two events and one logged error
C13_Witness ==
    \E r \in Shards :
        /\ Len(returned[r]) = 3
        /\ returned[r][1].data = SampleAccount
        /\ returned[r][2].data = SampleMalformed
        /\ returned[r][3].data = SampleProject
        /\ Len(Handled(r)) = 3
        /\ Len(Sent(r)) = 2
        /\ Len(Calls(r, "error")) = 1
        /\ Len(From(r, received \o channel)) = 2

(***************************************************************************)
(* The decoding on its own.  The payload is looked at by key, whatever the *)
(* place of the key in the text.                                           *)
(***************************************************************************)
Decoded == decoded.at = "done"
IsObject == blob.form = "json" /\ blob.val.t = "object"
PayloadKeys == IF IsObject THEN {blob.val.v[i].key : i \in DOMAIN blob.val.v} ELSE {}
PayloadValue(k) ==
    blob.val.v[CHOOSE i \in DOMAIN blob.val.v : blob.val.v[i].key = k].value
\* the keys of the payload other than the given ones, with their values
Remainder(keys) == [k \in PayloadKeys \ keys |-> PayloadValue(k)]

\* C14: an object that has the key ProjectId never decodes to an
\* AccountEvent, whatever else it holds: it gives a ProjectEvent or an error.
C14_ProjectIdDecides ==
    (Decoded /\ "ProjectId" \in PayloadKeys /\ decoded.result.ok) =>
        decoded.result.event.variant = "Project"

\* C15, as claimed: the event_data of a decoded event has none of the keys
\* ProjectId and AccountId nor, for a ProjectEvent, EntityType and EntityId,
\* and it has every other key of the payload with its value.
C15_NoDiscriminatorInExtra ==
    (Decoded /\ decoded.result.ok) =>
        LET e == decoded.result.event
            hoisted == {"ProjectId", "AccountId"}
                       \cup (IF e.variant = "Project" THEN {"EntityType", "EntityId"}
                             ELSE {})
        IN  /\ DOMAIN e.event_data \cap hoisted = {}
            /\ e.event_data = Remainder(hoisted)

\* C15, amended: the event_data of a decoded event has none of the keys of
\* the named fields of its own variant (ProjectId, EntityType and EntityId
\* for a ProjectEvent, AccountId for an AccountEvent), and it has every other
\* key of the payload with its value, the other variant's key included.
C15_ExtraIsTheUnmatchedKeys ==
    (Decoded /\ decoded.result.ok) =>
        LET e == decoded.result.event
            named == IF e.variant = "Project" THEN ProjectFields ELSE AccountFields
        IN  /\ DOMAIN e.event_data \cap named = {}
            /\ e.event_data = Remainder(named)

\* a ProjectEvent decoded from a payload that has the keys AccountId and Foo
\* too: both are in its event_data
C15_Witness ==
    /\ Decoded
    /\ decoded.result.ok
    /\ decoded.result.event.variant = "Project"
    /\ PayloadKeys = ProjectFields \cup {"AccountId"}
    /\ DOMAIN decoded.result.event.event_data = {"AccountId"}

\* C16: an object that has neither the key ProjectId nor the key AccountId
\* does not decode: try_from returns the error and no event.
C16_NoDiscriminatorFails ==
    (Decoded /\ IsObject /\ PayloadKeys \cap {"ProjectId", "AccountId"} = {}) =>
        ~decoded.result.ok

\* the empty object was handed to try_from and gave the error
C16_Witness ==
    /\ Decoded
    /\ blob = SampleEmptyObject
    /\ decoded.result = [ok |-> FALSE]

\* C17: an object with a ProjectId that is the text of a UUID and with
\* strings for EntityType and EntityId decodes to the ProjectEvent of these
\* three values whose event_data is exactly the other keys with their
\* values, wherever the keys stand in the text.
C17_ProjectEventDecoded ==
    (/\ Decoded
     /\ ProjectFields \subseteq PayloadKeys
     /\ \A k \in ProjectFields : Accepts(k, PayloadValue(k))) =>
        /\ decoded.result.ok
        /\ decoded.result.event =
              [variant |-> "Project",
               project_id |-> UuidOf[PayloadValue("ProjectId").v],
               entity_type |-> PayloadValue("EntityType").v,
               entity_id |-> PayloadValue("EntityId").v,
               event_data |-> Remainder(ProjectFields)]

\* a ProjectEvent decoded from an object whose first key is a valid AccountId
\* and whose last key is the ProjectId
C17_Witness ==
    /\ Decoded
    /\ IsObject
    /\ Len(blob.val.v) = 4
    /\ blob.val.v[1] = Pair("AccountId", Num("0"))
    /\ blob.val.v[2].key = "EntityId"
    /\ blob.val.v[4] = Pair("ProjectId", Str("6f0c1d2e00004000800000000000000b"))
    /\ decoded.result.ok
    /\ decoded.result.event.project_id = "uuid-b"
    /\ decoded.result.event.event_data = [k \in {"AccountId"} |-> Num("0")]

\* C18: an object without ProjectId whose AccountId is a number of 0 ..
\* 2^64-1 decodes to the AccountEvent of that number whose event_data is the
\* other keys with their values.
C18_AccountEventDecoded ==
    (/\ Decoded
     /\ "ProjectId" \notin PayloadKeys
     /\ "AccountId" \in PayloadKeys
     /\ PayloadValue("AccountId").t = "number"
     /\ PayloadValue("AccountId").v \in {"0", "42", "18446744073709551615"}) =>
        /\ decoded.result.ok
        /\ decoded.result.event =
              [variant |-> "Account",
               account_id |-> PayloadValue("AccountId").v,
               event_data |-> Remainder(AccountFields)]

\* an AccountEvent of 2^64-1 decoded from an object that has the other keys
\* of a project event and Foo
C18_Witness ==
    /\ Decoded
    /\ PayloadKeys = {"AccountId", "EntityType", "EntityId", "Foo"}
    /\ decoded.result.ok
    /\ decoded.result.event.variant = "Account"
    /\ decoded.result.event.account_id = "18446744073709551615"
    /\ DOMAIN decoded.result.event.event_data = {"EntityType", "EntityId", "Foo"}

\* C19: a reader that has stopped has returned: Ok(()) after a GetRecords
\* response without next iterator, or an error after a failed call of its own
\* (GetShardIterator, GetRecords or send); it never stops by a panic, whatever
\* a successful GetRecords response holds.
C19_EndsByReturnOnly ==
    \A r \in Shards :
        /\ task[r] # "panicked"
        /\ task[r] = "Ok" => (Fetches(r) # << >> /\ Last(Fetches(r)).res = "ok"
                                /\ Last(Fetches(r)).out = 0)
        /\ task[r] = "Err" =>
              /\ trace[r] # << >>
              /\ \/ Last(trace[r]).op = "get_shard_iterator"
                    /\ Last(trace[r]).res \in {"err", "none"}
                 \/ Last(trace[r]).op = "get_records" /\ Last(trace[r]).res = "err"
                 \/ Last(trace[r]).op = "send" /\ Last(trace[r]).res = "closed"

\* the records of reader r returned so far that decode
Decodable(r) == {n \in 1..Len(returned[r]) : Decodes(returned[r][n])}

\* C20: the next iterator alone decides the end of the shard, not the number
\* of records: a reader returns Ok(()) only after a response without next
\* iterator, and then it has published every record that decodes; a response
\* with a next iterator never ends it, and when that response has no record
\* nothing is published for it and the reader goes on, through the wait, to
\* a GetRecords call with that iterator; a response without next iterator
\* ends the reader once its records, however many, are published or reported.
C20_NextIteratorDecidesEnd ==
    \A r \in Shards :
        LET f == Fetches(r) IN
        /\ task[r] = "Ok" =>
              /\ f # << >> /\ Last(f).res = "ok" /\ Last(f).out = 0
              /\ Len(Sent(r)) = Cardinality(Decodable(r))
        /\ (f # << >> /\ Last(f).res = "ok" /\ Last(f).out # 0) =>
              /\ task[r] \in {"handle_record", "sleep", "get_records", "panicked"}
              /\ task[r] \in {"sleep", "get_records"} => shard_iterator[r] = Last(f).out
              /\ (resp[r].records.present /\ resp[r].records.list = << >>) =>
                    /\ Last(trace[r]).op \in {"get_records", "sleep"}
                    /\ task[r] = "handle_record" => ENABLED UpdateIterator(r)
                    /\ task[r] \in {"sleep", "get_records"}
                          => Len(Sent(r)) = Cardinality(Decodable(r))
        /\ (/\ f # << >> /\ Last(f).res = "ok" /\ Last(f).out = 0
            /\ resp[r].records.present
            /\ Len(Handled(r)) = Len(returned[r])
            /\ \A i \in 1..Len(Handled(r)) : Handled(r)[i].res \in {"ok", "logged"}) =>
              \/ task[r] = "Ok"
              \/ task[r] = "handle_record" /\ idx[r] > Len(resp[r].records.list)
        /\ \A i \in 2..Len(f) : f[i].arg = f[i - 1].out /\ f[i - 1].out # 0

\* a response with no record and a next iterator, then, after the wait, a
\* response with records and no next iterator: they were published and the
\* reader returned Ok(())
C20_Witness ==
    \E r \in Shards :
        /\ task[r] = "Ok"
        /\ Len(Fetches(r)) = 2
        /\ trace[r][2].op = "get_records" /\ trace[r][2].out # 0
        /\ trace[r][3].op = "sleep"
        /\ trace[r][4].op = "get_records" /\ trace[r][4].out = 0
        /\ Len(returned[r]) = 2
        /\ Len(Sent(r)) = 2

\* record n of reader r was sent with success / has been taken by the collator
WasSent(r, n) == \E i \in 1..Len(trace[r]) :
                     trace[r][i] = Call("send", n, "ok", 0)
WasReceived(r, n) == \E i \in 1..Len(received) :
                         received[i].src = r /\ received[i].seq = n

\* C21: every event a reader has sent with success is eventually taken by
\* receive_events, whatever becomes of the reader afterwards.
C21_SentIsReceived ==
    \A r \in Shards : \A n \in 1..MaxRecords :
        WasSent(r, n) ~> WasReceived(r, n)

\* the position in reader r's trace at which the Receiver was dropped, 0 if
\* it has not been
DroppedAt(r) ==
    IF \E i \in 1..Len(trace[r]) : trace[r][i].op = "drop_receiver"
    THEN CHOOSE i \in 1..Len(trace[r]) : trace[r][i].op = "drop_receiver"
    ELSE 0
\* the positions of reader r's trace after the drop of the Receiver
AfterDrop(r) ==
    IF DroppedAt(r) = 0 THEN {} ELSE (DroppedAt(r) + 1)..Len(trace[r])

\* C22: a reader notices that the Receiver is gone only at a send. After the
\* drop every record that decodes is answered by a failed send, which is the
\* reader's last call and leaves it in error; every malformed record is only
\* reported and no record is passed over; the reader is in error by nothing
\* but that send or a failed service call of its own; and as long as it runs
\* it has a next step, the next GetRecords call included.
C22_ClosureSeenAtSend ==
    \A r \in Shards :
        /\ \A i \in AfterDrop(r) :
              LET c == trace[r][i] IN
              /\ (c.op = "send") =>
                    /\ c.res = "closed"
                    /\ Decodes(returned[r][c.arg])
                    /\ i = Len(trace[r])
                    /\ task[r] = "Err"
              /\ (c.op = "error") =>
                    /\ Malformed(returned[r][c.arg])
                    /\ i = Len(trace[r]) => task[r] \in Running \cup {"Ok"}
              /\ (c.op = "get_records" /\ c.res = "ok") =>
                    (i = Len(trace[r]) => task[r] # "Err")
        /\ \A i \in 1..Len(trace[r]) :
              (trace[r][i].op = "send" /\ trace[r][i].res = "closed") => i \in AfterDrop(r)
        /\ DroppedAt(r) # 0 =>
              /\ \A k \in 1..Len(Handled(r)) : Handled(r)[k].arg = k
              /\ task[r] \in {"sleep", "get_records", "Ok"} =>
                    Len(Handled(r)) = Len(returned[r])
        /\ (DroppedAt(r) # 0 /\ task[r] = "Err") =>
              \/ Last(trace[r]).op = "send"
              \/ Last(trace[r]).op = "get_records" /\ Last(trace[r]).res = "err"
              \/ Last(trace[r]).op = "get_shard_iterator"
                    /\ Last(trace[r]).res \in {"err", "none"}
              \/ Last(trace[r]).op = "drop_receiver" /\ DroppedAt(r) > 1
                    /\ trace[r][DroppedAt(r) - 1].res \in {"err", "none"}
        /\ (DroppedAt(r) # 0 /\ task[r] \in Running) =>
              \/ ENABLED Reader(r)
              \/ task[r] = "get_records" /\ service[r].fetches = FetchLimit

\* the Receiver was dropped before the reader's second GetRecords call; two
\* batches were fetched after the drop, a malformed record of them was only
\* reported, and the first record that decodes ended the reader at its send
C22_Witness ==
    \E r \in Shards :
        /\ DroppedAt(r) # 0
        /\ task[r] = "Err"
        /\ Last(trace[r]) = Call("send", Len(returned[r]), "closed", 0)
        /\ Len(returned[r]) >= 2
        /\ Cardinality({i \in AfterDrop(r) : trace[r][i].op = "get_records"
                                               /\ trace[r][i].res = "ok"}) >= 2
        /\ \E i \in AfterDrop(r) : trace[r][i].op = "error"
        /\ \A i \in AfterDrop(r) : trace[r][i].op = "error" =>
              \E j \in AfterDrop(r) : j > i /\ trace[r][j].op = "get_records"

====
